---- MODULE Spec2Model ----
(***************************************************************************)
(* SENTINELX: session store, session verifier and trust engine.            *)
(*                                                                         *)
(* Fixed-point conventions.  Python floats in [0,1] are modelled as        *)
(* integers in basis points (1.0 = 10000); the trust weights are in        *)
(* percent.  Wall-clock time (datetime.utcnow) is an integer number of     *)
(* seconds.  Divisions round down to one basis point.                      *)
(***************************************************************************)
EXTENDS Integers, Sequences, FiniteSets, Bags, TLC

VARIABLES
    now,            \* datetime.utcnow(), seconds
    steps,          \* number of operations so far (bounds the run)
    sessions,       \* table user_sessions: sequence of rows, id = index
    events,         \* table behavioral_events: the bag of its rows (ids left out)
    bundles,        \* the files user_<id>_model.pkl on disk, by user id
    loaded_models,  \* RealTimePredictor.loaded_models (keys)
    terminated,     \* session ids on which execute_security_action(TERMINATE_SESSION) succeeded
    result,         \* what the last operation returned to its caller
    requests,       \* POST /api/trust/score requests in flight, by request id
    profiles,       \* rows of behavioral_profiles, by user id
    predictor_models \* loaded_models of the module-level predictor of predict.py

vars == <<now, steps, sessions, events, bundles, loaded_models, terminated, result,
          requests, profiles, predictor_models>>

-----------------------------------------------------------------------------
(* Bounds of the model *)

MaxSessions == 2
MaxEvents == 5
MaxSteps == 4
MaxRequests == 2

(* Inputs the environment may supply *)

UserIds == {1, 2}                             \* rows of table users
BundleUsers == {1}                            \* users with a file user_<id>_model.pkl
TickDeltas == {1, 90000}                      \* 1 s, 25 h
ClientSkews == {0, 300}                       \* client timestamp = now - skew
DetectorOutputs == {<<"ok", 0, 10000>>, <<"ok", 10000, 10000>>, <<"error", 0, 0>>}
    \* what a loaded ensemble yields: <<"ok", anomaly_score, confidence>>, or an exception
Faults == {"none", "query", "commit"}
    \* a store call of calculate_trust_score that raises: none, a query of a
    \* component score, or the commit of the write-back
TrustWrites == {0, 15000}                     \* arguments of DatabaseOperations.update_trust_score
Detectors == {"isolation_forest", "one_class_svm", "local_outlier_factor"}

-----------------------------------------------------------------------------
(* Program constants *)

ONE == 10000
SessionTimeout == 86400
W_behavioral == 40
W_temporal == 20
W_context == 15
W_historical == 15
W_anomaly == 10
MaxDecayPerUpdate == 2000
ReauthTrust == 3000
MinTrustThreshold == 3000

TrustLevels == {"critical", "low", "moderate", "high", "maximum"}
SecurityActions == {"terminate_session", "require_reauth", "restrict_access",
                    "increase_monitoring", "log_only", "no_action"}

Min2(a, b) == IF a <= b THEN a ELSE b
Max2(a, b) == IF a >= b THEN a ELSE b
Clamp01(v) == Max2(0, Min2(ONE, v))
Abs(v) == IF v < 0 THEN -v ELSE v

RECURSIVE SumSeq(_)
SumSeq(s) == IF s = <<>> THEN 0 ELSE Head(s) + SumSeq(Tail(s))

\* Training: thresholds of collect_training_data, widths of FeatureEngineer
TrainingWindow == 2592000       \* days_back = 30, in seconds
MinTrainingEvents == 50
MinSessionEvents == 10
MinFeatureVectors == 10
VocabularyLength == 23          \* names listed by _get_expected_feature_names
KeystrokeBlockEnd == 20         \* X[:, :20]
MouseBlockEnd == 40             \* X[:, 20:40]
PcaKeystrokeComponents == 10
PcaMouseComponents == 15

\* What joblib.dump writes: the detectors that fitted and the feature importance,
\* one entry per column of the training matrix
StoredBundle ==
    [models |-> Detectors, feature_count |-> VocabularyLength, trained_at |-> 0]

-----------------------------------------------------------------------------
(* Trust engine: pure parts *)

TrustActions(level) ==
    CASE level = "critical" -> "terminate_session"
      [] level = "low"      -> "require_reauth"
      [] level = "moderate" -> "restrict_access"
      [] level = "high"     -> "increase_monitoring"
      [] level = "maximum"  -> "no_action"

\* Variant with exclusive thresholds
DetermineTrustLevel_Exclusive(trust_score) ==
    IF trust_score > 8000 THEN "maximum"
    ELSE IF trust_score > 6000 THEN "high"
    ELSE IF trust_score > 4000 THEN "moderate"
    ELSE IF trust_score > 2000 THEN "low"
    ELSE "critical"

DetermineTrustLevel(trust_score) ==
    IF trust_score >= 8000 THEN "maximum"
    ELSE IF trust_score >= 6000 THEN "high"
    ELSE IF trust_score >= 4000 THEN "moderate"
    ELSE IF trust_score >= 2000 THEN "low"
    ELSE "critical"

\* Variant that ignores the confidence
CalculateBehavioralScore_Untempered(anomaly_score, confidence) ==
    Clamp01(ONE - anomaly_score)

CalculateBehavioralScore(anomaly_score, confidence) ==
    LET base_trust == ONE - anomaly_score
        confidence_adjusted == (base_trust * confidence + (ONE - confidence) * 5000) \div ONE
    IN  Clamp01(confidence_adjusted)

\* Variant in which the behavioral score scales the whole sum
WeightedTrust_Gated(b, t, x, h, f) ==
    (b * ((b * W_behavioral + t * W_temporal + x * W_context
             + h * W_historical + f * W_anomaly) \div 100)) \div ONE

WeightedTrust(b, t, x, h, f) ==
    (b * W_behavioral + t * W_temporal + x * W_context
       + h * W_historical + f * W_anomaly) \div 100

FinalTrustScore(b, t, x, h, f) == Clamp01(WeightedTrust(b, t, x, h, f))

-----------------------------------------------------------------------------
(* Store queries *)

SessionIds == 1..Len(sessions)
EventRows == BagToSet(events)

\* db.query(UserSession).filter(UserSession.id == session_id).first()
SessionExists(sid) == sid \in SessionIds

\* Tokens are secrets.token_urlsafe(32) values, unique per row: the token of
\* row i is modelled as i.  The result is 0 when no row matches.
GetActiveSession(token) ==
    IF \E i \in SessionIds : sessions[i].session_token = token /\ sessions[i].is_active
    THEN CHOOSE i \in SessionIds : sessions[i].session_token = token /\ sessions[i].is_active
    ELSE 0

NewSession(user_id, token) ==
    [user_id |-> user_id, session_token |-> token,
     initial_trust_score |-> ONE, current_trust_score |-> ONE,
     min_trust_threshold |-> MinTrustThreshold,
     login_time |-> now, last_activity |-> now, is_active |-> TRUE]

\* Variant that stores the event as anomalous
NewEvent_Flagged(sid, ts) ==
    [session_id |-> sid, timestamp |-> ts, is_anomalous |-> TRUE,
     anomaly_score |-> "null"]

\* A row of behavioral_events as the two ingestion endpoints build it:
\* is_anomalous takes the column default and anomaly_score stays NULL.  The
\* columns no modelled query reads (event_type, event_data, processed_features)
\* are left out
NewEvent(sid, ts) ==
    [session_id |-> sid, timestamp |-> ts, is_anomalous |-> FALSE,
     anomaly_score |-> "null"]

Repeat(x, n) == [i \in 1..n |-> x]

\* Timestamps of the rows in S, latest first (ORDER BY timestamp DESC)
RECURSIVE TimestampsDesc(_)
TimestampsDesc(S) ==
    IF S = {} THEN <<>>
    ELSE LET r == CHOOSE x \in S : \A y \in S : x.timestamp >= y.timestamp
         IN  Repeat(r.timestamp, CopiesIn(r, events)) \o TimestampsDesc(S \ {r})

RECURSIVE CountRows(_)
CountRows(S) ==
    IF S = {} THEN 0
    ELSE LET r == CHOOSE x \in S : TRUE IN CopiesIn(r, events) + CountRows(S \ {r})

Limit(s, n) == SubSeq(s, 1, Min2(n, Len(s)))

-----------------------------------------------------------------------------
(* Trust engine: components read from the store *)

CalculateTemporalConsistency(sid) ==
    LET window == {r \in EventRows : /\ r.session_id = sid
                                     /\ r.timestamp >= now - 600}
        recent == Limit(TimestampsDesc(window), 20)
        k == Len(recent) - 1
        intervals == [i \in 1..k |-> recent[i] - recent[i + 1]]
        s == SumSeq(intervals)
        q == SumSeq([i \in 1..k |-> intervals[i] * intervals[i]])
        \* avg = s/k, variance = (k*q - s*s)/k^2
        kvar == k * q - s * s
        consistency == IF s >= k
                       THEN (ONE * k * s) \div (k * s + kvar)
                       ELSE (ONE * k * k) \div (k * k + kvar)
        penalised == IF 10 * kvar < k * k /\ s < k
                     THEN consistency \div 2 ELSE consistency
    IN  IF Len(recent) < 5 THEN 7000 ELSE Clamp01(penalised)

CalculateSessionContextScore(sid) ==
    LET session_duration == now - sessions[sid].login_time
        total_events == CountRows({r \in EventRows : r.session_id = sid})
        by_duration == IF session_duration < 60 THEN (ONE * 7) \div 10
                       ELSE IF session_duration > 28800 THEN (ONE * 8) \div 10
                       ELSE ONE
        \* events_per_minute = total_events * 60 / session_duration
        by_activity ==
            IF session_duration > 0
            THEN IF /\ 5 * session_duration <= total_events * 60
                    /\ total_events * 60 <= 50 * session_duration
                 THEN by_duration
                 ELSE IF total_events * 60 < session_duration
                 THEN (by_duration * 6) \div 10
                 ELSE IF total_events * 60 > 100 * session_duration
                 THEN (by_duration * 5) \div 10
                 ELSE by_duration
            ELSE by_duration
    IN  Clamp01(by_activity)

\* The login_time-ordered, at most 10 latest sessions of the user in the last 7 days
RecentSessions(user_id) ==
    LET S == {i \in SessionIds : /\ sessions[i].user_id = user_id
                                 /\ sessions[i].login_time >= now - 604800}
        Later(i, j) == \/ sessions[i].login_time > sessions[j].login_time
                       \/ sessions[i].login_time = sessions[j].login_time /\ i > j
    IN  {i \in S : Cardinality({j \in S : Later(j, i)}) < 10}

RECURSIVE SumOver(_, _)
SumOver(S, f) ==
    IF S = {} THEN 0
    ELSE LET i == CHOOSE j \in S : TRUE IN f[i] + SumOver(S \ {i}, f)

CalculateHistoricalTrust(user_id) ==
    LET recent == RecentSessions(user_id)
        scored == {i \in recent : sessions[i].current_trust_score # 0}
        n == Cardinality(scored)
        v == [i \in scored |-> sessions[i].current_trust_score]
        p == [i \in scored |-> sessions[i].current_trust_score \div 100]
        total == SumOver(scored, v)
        psum == SumOver(scored, p)
        psq == SumOver(scored, [i \in scored |-> p[i] * p[i]])
        \* variance in basis points, from the scores in percent
        trust_variance == (n * psq - psum * psum) \div (n * n)
        historical_score == (total * ONE) \div (n * (ONE + trust_variance))
    IN  IF recent = {} THEN 5000
        ELSE IF scored = {} THEN 5000
        ELSE Clamp01(historical_score)

CalculateAnomalyFrequency(sid) ==
    LET recent == {r \in EventRows : /\ r.session_id = sid
                                     /\ r.timestamp >= now - 900}
        anomalous == CountRows({r \in recent : r.is_anomalous})
    IN  IF recent = {} THEN ONE
        ELSE Clamp01(ONE - (anomalous * ONE) \div CountRows(recent))

-----------------------------------------------------------------------------
(* Predictor *)

\* load_user_model: TRUE when the model is cached or its bundle can be read
LoadUserModel(user_id) == user_id \in loaded_models \/ user_id \in DOMAIN bundles

\* Variant that caches an entry whether or not the bundle could be read
LoadedAfter_Always(user_id) == loaded_models \cup {user_id}

LoadedAfter(user_id) ==
    IF LoadUserModel(user_id) THEN loaded_models \cup {user_id} ELSE loaded_models

\* Variant that scores the session without asking for the user's model
PredictAnomaly_Unchecked(user_id, sid, det) ==
    IF {r \in EventRows : r.session_id = sid} = {}
    THEN [anomaly_score |-> 0, confidence |-> 0, risk_level |-> "insufficient_data",
          message |-> "Insufficient behavioral data"]
    ELSE IF det[1] = "error"
    THEN [anomaly_score |-> 0, confidence |-> 0, risk_level |-> "error",
          message |-> "Prediction error"]
    ELSE [anomaly_score |-> det[2], confidence |-> det[3], risk_level |-> "scored",
          message |-> "none"]

\* predict_anomaly; det is what the loaded ensemble yields for the session's
\* feature vector
PredictAnomaly(user_id, sid, det) ==
    IF ~LoadUserModel(user_id)
    THEN [anomaly_score |-> 0, confidence |-> 0, risk_level |-> "unknown",
          message |-> "No trained model available"]
    ELSE IF {r \in EventRows : r.session_id = sid} = {}
    THEN [anomaly_score |-> 0, confidence |-> 0, risk_level |-> "insufficient_data",
          message |-> "Insufficient behavioral data"]
    ELSE IF det[1] = "error"
    THEN [anomaly_score |-> 0, confidence |-> 0, risk_level |-> "error",
          message |-> "Prediction error"]
    ELSE [anomaly_score |-> det[2], confidence |-> det[3], risk_level |-> "scored",
          message |-> "none"]

-----------------------------------------------------------------------------
(* Trust engine: calculate_trust_score *)

Fallback(sid) ==
    [found |-> FALSE, session_id |-> sid, trust_score |-> 5000,
     trust_level |-> "moderate", recommended_action |-> "increase_monitoring",
     error |-> TRUE, previous |-> -1,
     behavioral_analysis |-> <<>>, trust_components |-> <<>>, trust_trend |-> <<>>]

\* Lines 97-116 of calculate_trust_score: the score, level and action computed
\* from the behavioral analysis and the four other component scores
ComposeTrust(anomaly_score, confidence, t, x, h, f) ==
    LET behavioral_score == CalculateBehavioralScore(anomaly_score, confidence)
        final_trust_score == FinalTrustScore(behavioral_score, t, x, h, f)
        trust_level == DetermineTrustLevel(final_trust_score)
    IN  [trust_score |-> final_trust_score, trust_level |-> trust_level,
         recommended_action |-> TrustActions(trust_level),
         trust_components |-> <<behavioral_score, t, x, h, f>>]

\* _calculate_trust_trend for a session that exists: `or` takes the initial
\* trust when the stored trust is 0.0
CalculateTrustTrend(sid, current_trust) ==
    LET session == sessions[sid]
        previous_trust == IF session.current_trust_score # 0
                          THEN session.current_trust_score
                          ELSE session.initial_trust_score
        trust_change == current_trust - previous_trust
    IN  [trend |-> IF Abs(trust_change) < 500 THEN "stable"
                   ELSE IF trust_change > 0 THEN "increasing"
                   ELSE "decreasing",
         change |-> trust_change,
         previous_score |-> previous_trust]

\* The result dictionary of the normal path
TrustResult(sid, det) ==
    LET session == sessions[sid]
        behavioral_analysis == PredictAnomaly(session.user_id, sid, det)
        composed == ComposeTrust(behavioral_analysis.anomaly_score,
                                 behavioral_analysis.confidence,
                                 CalculateTemporalConsistency(sid),
                                 CalculateSessionContextScore(sid),
                                 CalculateHistoricalTrust(session.user_id),
                                 CalculateAnomalyFrequency(sid))
    IN  [found |-> TRUE, session_id |-> sid, trust_score |-> composed.trust_score,
         trust_level |-> composed.trust_level,
         recommended_action |-> composed.recommended_action,
         error |-> FALSE, previous |-> session.current_trust_score,
         behavioral_analysis |-> behavioral_analysis,
         trust_components |-> composed.trust_components,
         trust_trend |-> CalculateTrustTrend(sid, composed.trust_score)]

CalculateTrustResult(sid, det) ==
    IF SessionExists(sid) THEN TrustResult(sid, det) ELSE Fallback(sid)

\* What calculate_trust_score returns when the store call named by fault raises
CalculateOutcome(sid, det, fault) ==
    IF fault = "none" THEN CalculateTrustResult(sid, det) ELSE Fallback(sid)

\* Variant of the write-back that also marks the session active
UpdateSessionTrust_Reactivate(rows, sid, trust_score) ==
    [rows EXCEPT ![sid].current_trust_score = trust_score,
                 ![sid].last_activity = now,
                 ![sid].is_active = TRUE]

\* _update_session_trust: the rows after the write-back of trust_score
UpdateSessionTrust(rows, sid, trust_score) ==
    [rows EXCEPT ![sid].current_trust_score = trust_score,
                 ![sid].last_activity = now]

\* The rows of user_sessions after calculate_trust_score(sid)
SessionsAfterCalculate(sid, det) ==
    IF SessionExists(sid)
    THEN UpdateSessionTrust(sessions, sid, TrustResult(sid, det).trust_score)
    ELSE sessions

\* Variant in which the score assigned before a failed commit reaches the row
SessionsAfterFallback_Dirty(sid, det, fault) ==
    IF SessionExists(sid) /\ fault = "commit"
    THEN [sessions EXCEPT ![sid].current_trust_score = TrustResult(sid, det).trust_score]
    ELSE sessions

\* The rows after a calculate_trust_score that took the except branch: a query
\* that raises comes before any assignment, and a commit that raises rolls the
\* transaction back
SessionsAfterFallback(sid, det, fault) == sessions

\* The rows after calculate_trust_score(sid) with the store call named by
\* fault raising
SessionsAfterOutcome(sid, det, fault) ==
    IF fault = "none" THEN SessionsAfterCalculate(sid, det)
    ELSE SessionsAfterFallback(sid, det, fault)

CacheAfterCalculate(sid) ==
    IF SessionExists(sid) THEN LoadedAfter(sessions[sid].user_id) ELSE loaded_models

Reply(op, arg, status, r) ==
    [op |-> op, arg |-> arg, status |-> status, session_id |-> r.session_id,
     trust_score |-> r.trust_score, trust_level |-> r.trust_level,
     recommended_action |-> r.recommended_action, error |-> r.error,
     previous |-> r.previous, behavioral_analysis |-> r.behavioral_analysis,
     trust_components |-> r.trust_components, trust_trend |-> r.trust_trend]

NoTrust ==
    [session_id |-> 0, trust_score |-> -1, trust_level |-> "none",
     recommended_action |-> "none", error |-> FALSE, previous |-> -1,
     behavioral_analysis |-> <<>>, trust_components |-> <<>>, trust_trend |-> <<>>]

-----------------------------------------------------------------------------
(* Session verifier *)

\* verify_session_token: "ok", "invalid" (no active row) or "expired"
VerifyOutcome(token) ==
    LET sid == GetActiveSession(token)
    IN  IF sid = 0 THEN "invalid"
        ELSE IF ~sessions[sid].is_active THEN "terminated"
        ELSE IF now - sessions[sid].login_time > SessionTimeout THEN "expired"
        ELSE "ok"

\* Variant that rejects an expired session without persisting is_active
SessionsAfterVerify_NoCommit(token) == sessions

\* The rows after verify_session_token(token)
SessionsAfterVerify(token) ==
    IF VerifyOutcome(token) = "expired"
    THEN [sessions EXCEPT ![GetActiveSession(token)].is_active = FALSE]
    ELSE sessions

-----------------------------------------------------------------------------
(* Security actions *)

\* Variant in which TERMINATE_SESSION leaves is_active alone
SessionsAfterAction_KeepActive(sid, action) ==
    IF action = "require_reauth"
    THEN [sessions EXCEPT ![sid].current_trust_score =
                              Min2(sessions[sid].current_trust_score, ReauthTrust)]
    ELSE sessions

\* Variant that stamps last_activity whatever the action
SessionsAfterAction_Touch(sid, action) ==
    [sessions EXCEPT ![sid].last_activity = now,
                     ![sid].is_active = (action # "terminate_session"
                                           /\ sessions[sid].is_active),
                     ![sid].current_trust_score =
                         IF action = "require_reauth"
                         THEN Min2(sessions[sid].current_trust_score, ReauthTrust)
                         ELSE sessions[sid].current_trust_score]

\* The rows after execute_security_action(sid, action) on an existing session
SessionsAfterAction(sid, action) ==
    IF action = "terminate_session"
    THEN [sessions EXCEPT ![sid].is_active = FALSE]
    ELSE IF action = "require_reauth"
    THEN [sessions EXCEPT ![sid].current_trust_score =
                              Min2(sessions[sid].current_trust_score, ReauthTrust)]
    ELSE sessions

-----------------------------------------------------------------------------
(* Initial states.  The server process starts with an empty predictor cache
   on a persistent database and bundle directory.  The database is either
   empty, or holds what six earlier requests left there: one login of user 1
   and five keystroke batches of that session, four stamped by the client
   with the time of the login and one stamped five minutes earlier. *)

StoredSessions == <<NewSession(1, 1)>>

StoredEvents == SetToBag({NewEvent(1, now - 300)}) (+)
                [r \in {NewEvent(1, now)} |-> 4]

InitQuiet ==
    /\ now = 0
    /\ steps = 0
    /\ bundles = [u \in BundleUsers |-> StoredBundle]
    /\ loaded_models = {}
    /\ terminated = {}
    /\ result = Reply("init", 0, 200, NoTrust)
    /\ requests = <<>>
    /\ profiles = <<>>
    /\ predictor_models = <<>>

Init ==
    /\ InitQuiet
    /\ \/ sessions = <<>> /\ events = EmptyBag
       \/ sessions = StoredSessions /\ events = StoredEvents

Tokens == 1..MaxSessions

\* Every operation counts against the length of the run
Step ==
    /\ steps < MaxSteps
    /\ steps' = steps + 1
    /\ UNCHANGED <<requests, profiles, predictor_models>>

-----------------------------------------------------------------------------
(* Operations *)

\* POST /auth/login with the right password
Login(u) ==
    /\ Step
    /\ Len(sessions) < MaxSessions
    /\ sessions' = Append(sessions, NewSession(u, Len(sessions) + 1))
    /\ result' = Reply("login", u, 200, NoTrust)
    /\ UNCHANGED <<now, events, bundles, loaded_models, terminated>>

\* POST /auth/logout with the bearer token of user u
Logout(u) ==
    /\ Step
    /\ result' = Reply("logout", u, 200, NoTrust)
    /\ UNCHANGED <<now, sessions, events, bundles, loaded_models, terminated>>

\* POST /behavior/keystroke and POST /behavior/mouse
ProcessBehavioralData(op, token, skew) ==
    LET sid == GetActiveSession(token)
    IN  /\ Step
        /\ BagCardinality(events) < MaxEvents
        /\ IF sid = 0
           THEN /\ result' = Reply(op, token, 500, NoTrust)
                /\ UNCHANGED events
           ELSE /\ events' = events (+) SetToBag({NewEvent(sid, now - skew)})
                /\ result' = Reply(op, token, 200, NoTrust)
        /\ UNCHANGED <<now, sessions, bundles, loaded_models, terminated>>

ProcessKeystrokeData(token, skew) ==
    ProcessBehavioralData("process_keystroke_data", token, skew)

ProcessMouseData(token, skew) ==
    ProcessBehavioralData("process_mouse_data", token, skew)

\* TrustEngine.calculate_trust_score(session_id, db)
CalculateTrustScore(sid, det, fault) ==
    /\ Step
    /\ sessions' = SessionsAfterOutcome(sid, det, fault)
    /\ loaded_models' = CacheAfterCalculate(sid)
    /\ result' = Reply("calculate_trust_score", sid, 200, CalculateOutcome(sid, det, fault))
    /\ UNCHANGED <<now, events, bundles, terminated>>

\* POST /trust/score
TrustScoreEndpoint(token, det, fault) ==
    LET sid == GetActiveSession(token)
    IN  /\ Step
        /\ IF sid = 0
           THEN /\ result' = Reply("trust_score", token, 500, NoTrust)
                /\ UNCHANGED <<sessions, loaded_models>>
           ELSE /\ sessions' = SessionsAfterOutcome(sid, det, fault)
                /\ loaded_models' = CacheAfterCalculate(sid)
                /\ result' = Reply("trust_score", token, 200,
                                   CalculateOutcome(sid, det, fault))
        /\ UNCHANGED <<now, events, bundles, terminated>>

\* TrustEngine.execute_security_action(session_id, action, db)
ExecuteSecurityAction(sid, action) ==
    /\ Step
    /\ IF SessionExists(sid)
       THEN /\ sessions' = SessionsAfterAction(sid, action)
            /\ terminated' = IF action = "terminate_session"
                             THEN terminated \cup {sid} ELSE terminated
            /\ result' = [Reply("execute_security_action", sid, 200, NoTrust)
                            EXCEPT !.session_id = sid, !.recommended_action = action]
       ELSE /\ result' = [Reply("execute_security_action", sid, 404, NoTrust)
                            EXCEPT !.recommended_action = action, !.error = TRUE]
            /\ UNCHANGED <<sessions, terminated>>
    /\ UNCHANGED <<now, events, bundles, loaded_models>>

\* SessionVerifier.verify_session_token(token, db)
VerifySessionToken(token) ==
    /\ Step
    /\ sessions' = SessionsAfterVerify(token)
    /\ result' = [Reply("verify_session_token", token,
                        IF VerifyOutcome(token) = "ok" THEN 200 ELSE 401, NoTrust)
                    EXCEPT !.session_id = GetActiveSession(token)]
    /\ UNCHANGED <<now, events, bundles, loaded_models, terminated>>

\* SessionVerifier.continuous_verification(token, db)
\* After a commit that raised, the database session refuses the commit of
\* line 94 until it is rolled back: the call ends in that exception (500)
ContinuousVerification(token, det, fault) ==
    LET sid == GetActiveSession(token)
    IN  /\ Step
        /\ IF VerifyOutcome(token) = "ok"
           THEN /\ sessions' = IF fault = "commit"
                               THEN SessionsAfterOutcome(sid, det, fault)
                               ELSE [SessionsAfterOutcome(sid, det, fault)
                                       EXCEPT ![sid].last_activity = now]
                /\ loaded_models' = CacheAfterCalculate(sid)
                /\ result' = Reply("continuous_verification", token,
                                   IF fault = "commit" THEN 500 ELSE 200,
                                   CalculateOutcome(sid, det, fault))
           ELSE /\ sessions' = SessionsAfterVerify(token)
                /\ result' = [Reply("continuous_verification", token, 401, NoTrust)
                                EXCEPT !.session_id = sid]
                /\ UNCHANGED loaded_models
        /\ UNCHANGED <<now, events, bundles, terminated>>

\* PUT /session/activity
UpdateSessionActivity(token) ==
    LET sid == GetActiveSession(token)
    IN  /\ Step
        /\ IF sid = 0
           THEN /\ result' = Reply("update_session_activity", token, 500, NoTrust)
                /\ UNCHANGED sessions
           ELSE /\ sessions' = [sessions EXCEPT ![sid].last_activity = now]
                /\ result' = [Reply("update_session_activity", token, 200, NoTrust)
                                EXCEPT !.session_id = sid]
        /\ UNCHANGED <<now, events, bundles, loaded_models, terminated>>

\* DatabaseOperations.update_trust_score(db, session_id, new_trust_score)
UpdateTrustScore(sid, new_trust_score) ==
    /\ Step
    /\ IF SessionExists(sid)
       THEN sessions' = [sessions EXCEPT ![sid].current_trust_score = new_trust_score]
       ELSE UNCHANGED sessions
    /\ result' = [Reply("update_trust_score", sid, 200, NoTrust)
                    EXCEPT !.session_id = IF SessionExists(sid) THEN sid ELSE 0]
    /\ UNCHANGED <<now, events, bundles, loaded_models, terminated>>

\* The clock advances
Tick(d) ==
    /\ Step
    /\ now' = now + d
    /\ result' = Reply("tick", 0, 200, NoTrust)
    /\ UNCHANGED <<sessions, events, bundles, loaded_models, terminated>>

Next ==
    \/ \E u \in UserIds : Login(u)
    \/ \E u \in UserIds : Logout(u)
    \/ \E t \in Tokens, k \in ClientSkews : ProcessKeystrokeData(t, k)
    \/ \E t \in Tokens, k \in ClientSkews : ProcessMouseData(t, k)
    \/ \E s \in Tokens, d \in DetectorOutputs, f \in Faults : CalculateTrustScore(s, d, f)
    \/ \E t \in Tokens, d \in DetectorOutputs, f \in Faults : TrustScoreEndpoint(t, d, f)
    \/ \E s \in Tokens, a \in SecurityActions : ExecuteSecurityAction(s, a)
    \/ \E t \in Tokens : VerifySessionToken(t)
    \/ \E t \in Tokens, d \in DetectorOutputs, f \in Faults : ContinuousVerification(t, d, f)
    \/ \E t \in Tokens : UpdateSessionActivity(t)
    \/ \E s \in Tokens, v \in TrustWrites : UpdateTrustScore(s, v)
    \/ \E d \in TickDeltas : Tick(d)

Spec == Init /\ [][Next]_vars

-----------------------------------------------------------------------------
(* The score composition on its own: lines 97-116 of calculate_trust_score
   applied to a behavioral analysis <<anomaly_score, confidence>> and the
   component scores t, x, h, f, each drawn from a grid over [0,1]. *)

AnomalyGrid == {0, 5000, 9500, ONE}
ConfidenceGrid == {0, 5000, ONE}
TemporalGrid == {0, 7000, ONE}
ContextGrid == {3500, 7000, ONE}
HistoricalGrid == {0, 5000, ONE}
FrequencyGrid == {0, 4990, 5000, ONE}

ScoreInputs ==
    AnomalyGrid \X ConfidenceGrid \X TemporalGrid \X ContextGrid
        \X HistoricalGrid \X FrequencyGrid

ScoreInit ==
    /\ now = 0
    /\ steps = 0
    /\ sessions = <<>>
    /\ events = EmptyBag
    /\ bundles = <<>>
    /\ loaded_models = {}
    /\ terminated = {}
    /\ requests = <<>>
    /\ profiles = <<>>
    /\ predictor_models = <<>>
    /\ \E in \in ScoreInputs : result = Reply("inputs", in, 200, NoTrust)

ComposeStep ==
    /\ result.op = "inputs"
    /\ LET in == result.arg
           composed == ComposeTrust(in[1], in[2], in[3], in[4], in[5], in[6])
       IN  result' = [Reply("compose_trust", in, 200, NoTrust)
                        EXCEPT !.trust_score = composed.trust_score,
                               !.trust_level = composed.trust_level,
                               !.recommended_action = composed.recommended_action,
                               !.trust_components = composed.trust_components]
    /\ UNCHANGED <<now, steps, sessions, events, bundles, loaded_models, terminated,
                   requests, profiles, predictor_models>>

ScoreNext == ComposeStep

ScoreSpec == ScoreInit /\ [][ScoreNext]_vars

-----------------------------------------------------------------------------
(* Concurrent POST /api/trust/score requests.  The server is one process with
   one event loop (uvicorn.run(app)).  A request is accepted and its
   dependencies (get_db, get_current_user) are resolved; then the body of the
   async handler runs from the session lookup to the commit of the write-back
   without awaiting anything; then it awaits the WebSocket send; then it
   returns.  Other requests run only while a request waits. *)

RequestIds == 1..MaxRequests

IdleRequest ==
    [pc |-> "idle", token |-> 0, det |-> <<>>, seen |-> -1,
     reply |-> Reply("trust_score", 0, 0, NoTrust), order |-> 0, overlapped |-> FALSE]

InFlight == {r \in RequestIds : requests[r].pc \in {"ready", "sending"}}
Committed == {r \in RequestIds : requests[r].order > 0}

\* Variant that takes the row as it was when the request was accepted
HandlerPrevious_AtArrival(r, sid) == requests[r].seen

\* The stored trust the handler body finds in the session row (line 81 of
\* calculate_trust_score, read when the body runs)
HandlerPrevious(r, sid) == sessions[sid].current_trust_score

ConcInit ==
    /\ now = 1
    /\ steps = 0
    /\ sessions = <<[NewSession(1, 1) EXCEPT !.login_time = 0, !.last_activity = 0]>>
    /\ events = SetToBag({NewEvent(1, 0)})
    /\ bundles = [u \in BundleUsers |-> StoredBundle]
    /\ loaded_models = {}
    /\ terminated = {}
    /\ result = Reply("init", 0, 200, NoTrust)
    /\ requests = [r \in RequestIds |-> IdleRequest]
    /\ profiles = <<>>
    /\ predictor_models = <<>>

\* The request is accepted and its dependencies are resolved
Accept(r, token, det) ==
    /\ requests[r].pc = "idle"
    /\ requests' = [requests EXCEPT ![r].pc = "ready", ![r].token = token,
                                    ![r].det = det,
                                    ![r].seen = IF GetActiveSession(token) = 0 THEN -1
                                                ELSE sessions[GetActiveSession(token)]
                                                         .current_trust_score]
    /\ UNCHANGED <<now, steps, sessions, events, bundles, loaded_models, terminated,
                   result, profiles, predictor_models>>

\* The handler body, lines 94-107 of main.py
RunHandler(r) ==
    LET token == requests[r].token
        det == requests[r].det
        sid == GetActiveSession(token)
    IN  /\ requests[r].pc = "ready"
        /\ IF sid = 0
           THEN /\ requests' = [requests EXCEPT
                                  ![r].pc = "done",
                                  ![r].reply = Reply("trust_score", token, 500, NoTrust)]
                /\ UNCHANGED <<sessions, loaded_models>>
           ELSE /\ sessions' = SessionsAfterCalculate(sid, det)
                /\ loaded_models' = CacheAfterCalculate(sid)
                /\ requests' = [requests EXCEPT
                                  ![r].pc = "sending",
                                  ![r].reply = [Reply("trust_score", token, 200,
                                                      CalculateTrustResult(sid, det))
                                                  EXCEPT !.previous = HandlerPrevious(r, sid)],
                                  ![r].order = Cardinality(Committed) + 1,
                                  ![r].overlapped = InFlight \ {r} # {}]
        /\ UNCHANGED <<now, steps, events, bundles, terminated, result, profiles,
                       predictor_models>>

\* The WebSocket send is over and the handler returns
Respond(r) ==
    /\ requests[r].pc = "sending"
    /\ requests' = [requests EXCEPT ![r].pc = "done"]
    /\ result' = requests[r].reply
    /\ UNCHANGED <<now, steps, sessions, events, bundles, loaded_models, terminated,
                   profiles, predictor_models>>

ConcNext ==
    \/ \E r \in RequestIds, t \in Tokens, d \in DetectorOutputs : Accept(r, t, d)
    \/ \E r \in RequestIds : RunHandler(r)
    \/ \E r \in RequestIds : Respond(r)

ConcSpec == ConcInit /\ [][ConcNext]_vars

-----------------------------------------------------------------------------
(* Model training and model status: BehavioralAnomalyDetector.train_user_model,
   RealTimePredictor.get_model_status on the module-level predictor, and
   SessionVerifier.check_behavioral_anomaly, the one caller that makes the
   module-level predictor load a bundle. *)

SessionCounts == {9, 10}            \* sessions of user 1 in the stored database
EventCounts == {4, 5, 9, 10}        \* events of each of these sessions
TrainTickDeltas == {86400}          \* one day
FitOutcomes == {Detectors, {"isolation_forest"}, {}}
    \* the detectors whose fit and evaluation raise nothing
ProfileFaults == {"none", "commit"}
    \* whether the commit of _update_behavioral_profile raises

\* Rows of the query of collect_training_data: events of the user's sessions
\* not older than the cutoff
TrainingRows(user_id) ==
    {r \in EventRows : /\ SessionExists(r.session_id)
                       /\ sessions[r.session_id].user_id = user_id
                       /\ r.timestamp >= now - TrainingWindow}

\* Sessions whose group has enough events; extract_session_features returns a
\* non-empty dictionary for a session that has events
QualifyingSessions(user_id) ==
    {s \in SessionIds :
        CountRows({r \in TrainingRows(user_id) : r.session_id = s}) >= MinSessionEvents}

\* collect_training_data: the number of rows of the training matrix, 0 for the
\* empty array
CollectTrainingData(user_id) ==
    IF CountRows(TrainingRows(user_id)) < MinTrainingEvents THEN 0
    ELSE IF Cardinality(QualifyingSessions(user_id)) < MinFeatureVectors THEN 0
    ELSE Cardinality(QualifyingSessions(user_id))

\* Columns of X[:, a:b] for a matrix with VocabularyLength columns
BlockWidth(a, b) ==
    IF Min2(b, VocabularyLength) > a THEN Min2(b, VocabularyLength) - a ELSE 0

\* PCA(n_components = c).fit on a matrix of n rows and w columns raises unless
\* c <= min(n, w)
PcaFits(c, n, w) == c <= Min2(n, w)

\* Variant in which fit_scalers never raises
FitScalers_Unchecked(n) == TRUE

\* fit_scalers returns without raising
FitScalers(n) ==
    /\ PcaFits(PcaKeystrokeComponents, n, BlockWidth(0, KeystrokeBlockEnd))
    /\ PcaFits(PcaMouseComponents, n, BlockWidth(KeystrokeBlockEnd, MouseBlockEnd))

\* Variant in which the training itself refuses nothing
TrainOutcome_NoRefusal(user_id, fitted, fault) ==
    LET n == Cardinality(QualifyingSessions(user_id))
    IN  IF fitted = {}
        THEN [success |-> FALSE, message |-> "All models failed to train",
              samples_collected |-> n, models_trained |-> {}, dumped |-> FALSE,
              profiled |-> FALSE]
        ELSE [success |-> fault # "commit", message |-> "Model trained successfully",
              samples_collected |-> n, models_trained |-> fitted,
              dumped |-> TRUE, profiled |-> fault # "commit"]

\* train_user_model, by the line where it returns.  dumped tells whether
\* joblib.dump (line 191) ran, profiled whether the profile commit went through.
TrainOutcome(user_id, fitted, fault) ==
    LET n == CollectTrainingData(user_id)
        failed(msg, d) == [success |-> FALSE, message |-> msg, samples_collected |-> 0,
                           models_trained |-> {}, dumped |-> d, profiled |-> FALSE]
    IN  IF n = 0 THEN failed("Insufficient training data", FALSE)
        ELSE IF ~FitScalers(n) THEN failed("Training failed", FALSE)
        ELSE IF fitted = {}
        THEN [failed("All models failed to train", FALSE) EXCEPT !.samples_collected = n]
        ELSE IF fault = "commit" THEN failed("Training failed", TRUE)
        ELSE [success |-> TRUE, message |-> "Model trained successfully",
              samples_collected |-> n, models_trained |-> fitted,
              dumped |-> TRUE, profiled |-> TRUE]

WithEntry(f, k, v) == [x \in DOMAIN f \cup {k} |-> IF x = k THEN v ELSE f[x]]

TrainUserModel(user_id, fitted, fault) ==
    LET out == TrainOutcome(user_id, fitted, fault)
    IN  /\ steps < MaxSteps
        /\ steps' = steps + 1
        /\ bundles' = IF out.dumped
                      THEN WithEntry(bundles, user_id,
                                     [models |-> fitted, feature_count |-> VocabularyLength,
                                      trained_at |-> now])
                      ELSE bundles
        /\ profiles' = IF out.profiled
                       THEN WithEntry(profiles, user_id,
                                      [samples_count |-> out.samples_collected,
                                       last_updated |-> now])
                       ELSE profiles
        /\ result' = [op |-> "train_user_model", arg |-> user_id, status |-> 200,
                      success |-> out.success, message |-> out.message,
                      samples_collected |-> out.samples_collected,
                      models_trained |-> out.models_trained]
        /\ UNCHANGED <<now, sessions, events, loaded_models, terminated, requests,
                       predictor_models>>

\* RealTimePredictor.get_model_status on the module-level predictor
ModelStatus(user_id) ==
    IF user_id \notin DOMAIN predictor_models
    THEN [loaded |-> FALSE, models_available |-> {}, feature_count |-> 0]
    ELSE [loaded |-> TRUE,
          models_available |-> predictor_models[user_id].models,
          feature_count |-> predictor_models[user_id].feature_count]

\* GET /api/ml/model/status/{user_id}
GetModelStatus(user_id) ==
    /\ steps < MaxSteps
    /\ steps' = steps + 1
    /\ result' = [op |-> "get_model_status", arg |-> user_id, status |-> 200,
                  loaded |-> ModelStatus(user_id).loaded,
                  models_available |-> ModelStatus(user_id).models_available,
                  feature_count |-> ModelStatus(user_id).feature_count]
    /\ UNCHANGED <<now, sessions, events, bundles, loaded_models, terminated, requests,
                   profiles, predictor_models>>

\* SessionVerifier.check_behavioral_anomaly(user_id, session_id, db): predict_anomaly
\* on the module-level predictor
CheckBehavioralAnomaly(user_id, sid, det) ==
    LET loadable == user_id \in DOMAIN predictor_models \/ user_id \in DOMAIN bundles
    IN  /\ steps < MaxSteps
        /\ steps' = steps + 1
        /\ predictor_models' =
              IF user_id \in DOMAIN predictor_models \/ user_id \notin DOMAIN bundles
              THEN predictor_models
              ELSE WithEntry(predictor_models, user_id, bundles[user_id])
        /\ result' = [op |-> "check_behavioral_anomaly", arg |-> user_id, status |-> 200,
                      risk_level |->
                          IF ~loadable THEN "unknown"
                          ELSE IF {r \in EventRows : r.session_id = sid} = {}
                          THEN "insufficient_data"
                          ELSE IF det[1] = "error" THEN "error" ELSE "scored"]
        /\ UNCHANGED <<now, sessions, events, bundles, loaded_models, terminated,
                       requests, profiles>>

TrainTick(d) ==
    /\ steps < MaxSteps
    /\ steps' = steps + 1
    /\ now' = now + d
    /\ result' = [op |-> "tick", arg |-> 0, status |-> 200]
    /\ UNCHANGED <<sessions, events, bundles, loaded_models, terminated, requests,
                   profiles, predictor_models>>

\* A database with k sessions of user 1, each with m events almost as old as
\* the training window, and one session of user 2 with enough events
TrainingSessions(k) == [i \in 1..(k + 1) |-> NewSession(IF i <= k THEN 1 ELSE 2, i)]

TrainingEvents(k, m) ==
    [r \in {NewEvent(i, now - TrainingWindow + 86400) : i \in 1..(k + 1)}
        |-> IF r.session_id <= k THEN m ELSE MinSessionEvents]

TrainInit ==
    /\ now = TrainingWindow
    /\ steps = 0
    /\ \E k \in SessionCounts, m \in EventCounts :
          /\ sessions = TrainingSessions(k)
          /\ events = TrainingEvents(k, m)
    /\ \E stored \in {{}, BundleUsers} :
          /\ bundles = [u \in stored |-> StoredBundle]
          /\ profiles = [u \in stored |-> [samples_count |-> MinFeatureVectors,
                                           last_updated |-> 0]]
    /\ loaded_models = {}
    /\ predictor_models = <<>>
    /\ terminated = {}
    /\ requests = <<>>
    /\ result = [op |-> "init", arg |-> 0, status |-> 200]

TrainNext ==
    \/ \E u \in UserIds, f \in FitOutcomes, p \in ProfileFaults : TrainUserModel(u, f, p)
    \/ \E u \in UserIds : GetModelStatus(u)
    \/ \E u \in UserIds, d \in DetectorOutputs : CheckBehavioralAnomaly(u, 1, d)
    \/ \E d \in TrainTickDeltas : TrainTick(d)

TrainSpec == TrainInit /\ [][TrainNext]_vars

-----------------------------------------------------------------------------
(* The ensemble of predict_anomaly on its own: lines 106-157 of predict.py.
   The raw decision_function values of the detectors are in hundredths
   (1.0 = 100), so that their variance comes out in basis points.  The input
   is the raw score of every detector that did not fail. *)

RawGrid == {-300, -60, 0, 40, 250}
EnsembleOthers == {<<7000, 7000, 5000, ONE>>, <<ONE, ONE, 15000, ONE>>, <<0, 3500, 0, ONE>>}
    \* temporal, context, historical and frequency components of the evaluation
EnsembleInputs == UNION {[S -> RawGrid] : S \in SUBSET Detectors}

\* The order of the dictionaries: the order in which train_user_model fits
DetectorOrder == <<"isolation_forest", "one_class_svm", "local_outlier_factor">>

Listed(scores) ==
    LET present(m) == m \in DOMAIN scores IN SelectSeq(DetectorOrder, present)

RECURSIVE SeqSum(_)
SeqSum(s) == IF s = <<>> THEN 0 ELSE Head(s) + SeqSum(Tail(s))

\* model_weights, in percent
ModelWeight(model_name) == IF model_name = "isolation_forest" THEN 40 ELSE 30

\* model.predict: -1 where the decision function is negative (not positive,
\* for the one-class SVM)
ModelPrediction(score, model_name) ==
    IF model_name = "one_class_svm"
    THEN (IF score > 0 THEN 1 ELSE -1)
    ELSE (IF score >= 0 THEN 1 ELSE -1)

\* Variant without the final clamp
NormalizeAnomalyScore_Unclamped(score, model_name) ==
    IF model_name = "isolation_forest" THEN Max2(0, (50 - score) * 100)
    ELSE IF model_name = "one_class_svm" THEN Max2(0, ((200 - score) * 100) \div 4)
    ELSE Max2(0, ((0 - score - 100) * 100) \div 2)

\* _normalize_anomaly_score, in basis points
NormalizeAnomalyScore(score, model_name) ==
    IF model_name = "isolation_forest"
    THEN Min2(ONE, Max2(0, Max2(0, (50 - score) * 100)))
    ELSE IF model_name = "one_class_svm"
    THEN Min2(ONE, Max2(0, Max2(0, ((200 - score) * 100) \div 4)))
    ELSE Min2(ONE, Max2(0, Max2(0, Min2(ONE, ((0 - score - 100) * 100) \div 2))))

\* _determine_risk_level
DetermineRiskLevel(anomaly_score) ==
    IF anomaly_score >= 8000 THEN "high_risk"
    ELSE IF anomaly_score >= 6000 THEN "medium_risk"
    ELSE IF anomaly_score >= 3000 THEN "low_risk"
    ELSE "normal"

\* np.var of the raw scores, in basis points
ScoreVariance(xs) ==
    LET n == Len(xs)
        squares == [i \in 1..n |-> xs[i] * xs[i]]
    IN  (n * SeqSum(squares) - SeqSum(xs) * SeqSum(xs)) \div (n * n)

\* _calculate_confidence
CalculateConfidence(scores) ==
    LET names == Listed(scores)
        n == Len(names)
        pred_values == [i \in 1..n |-> ModelPrediction(scores[names[i]], names[i])]
        score_values == [i \in 1..n |-> scores[names[i]]]
        agreement_ratio ==
            (Cardinality({i \in 1..n : pred_values[i] = pred_values[1]}) * ONE) \div n
        consistency == (ONE * ONE) \div (ONE + ScoreVariance(score_values))
    IN  IF n < 2 THEN 5000
        ELSE Min2(ONE, Max2(0, (agreement_ratio * 60 + consistency * 40) \div 100))

\* Lines 125-157: the result of predict_anomaly for a loaded model and a
\* session with features
EnsemblePrediction(scores) ==
    LET names == Listed(scores)
        n == Len(names)
        weighted_score ==
            SeqSum([i \in 1..n |->
                      NormalizeAnomalyScore(scores[names[i]], names[i]) * ModelWeight(names[i])])
        total_weight == SeqSum([i \in 1..n |-> ModelWeight(names[i])])
        final_anomaly_score ==
            IF total_weight > 0 THEN weighted_score \div total_weight ELSE 0
    IN  IF n = 0
        THEN [anomaly_score |-> 0, confidence |-> 0, risk_level |-> "error",
              message |-> "All models failed to predict"]
        ELSE [anomaly_score |-> final_anomaly_score,
              confidence |-> CalculateConfidence(scores),
              risk_level |-> DetermineRiskLevel(final_anomaly_score),
              message |-> "none"]

EnsembleInit ==
    /\ now = 0
    /\ steps = 0
    /\ sessions = <<>>
    /\ events = EmptyBag
    /\ bundles = <<>>
    /\ loaded_models = {}
    /\ terminated = {}
    /\ requests = <<>>
    /\ profiles = <<>>
    /\ predictor_models = <<>>
    /\ \E f \in EnsembleInputs, o \in EnsembleOthers :
          result = [op |-> "inputs", arg |-> [scores |-> f, others |-> o], status |-> 200]

\* predict_anomaly, then the composition of calculate_trust_score on its result
EnsembleStep ==
    /\ result.op = "inputs"
    /\ LET p == EnsemblePrediction(result.arg.scores)
           o == result.arg.others
       IN  result' = [op |-> "predict_anomaly", arg |-> result.arg, status |-> 200,
                      anomaly_score |-> p.anomaly_score, confidence |-> p.confidence,
                      risk_level |-> p.risk_level, message |-> p.message,
                      trust_score |-> ComposeTrust(p.anomaly_score, p.confidence,
                                                   o[1], o[2], o[3], o[4]).trust_score]
    /\ UNCHANGED <<now, steps, sessions, events, bundles, loaded_models, terminated,
                   requests, profiles, predictor_models>>

EnsembleNext == EnsembleStep

EnsembleSpec == EnsembleInit /\ [][EnsembleNext]_vars

-----------------------------------------------------------------------------
(* FeatureEngineer.create_feature_vector on its own.  A float is a record:
   a finite value in hundredths, or NaN, or an infinity. *)

\* _get_expected_feature_names
ExpectedFeatureNames ==
    <<"ks_avg_dwell_time_mean", "ks_avg_dwell_time_std",
      "ks_avg_flight_time_mean", "ks_typing_rhythm_variance_mean",
      "ks_pressure_consistency_mean", "ks_dwell_consistency",
      "ks_flight_consistency", "ks_rhythm_stability",
      "ms_velocity_mean_mean", "ms_velocity_mean_std",
      "ms_path_efficiency_mean", "ms_movement_smoothness_mean",
      "ms_click_precision_mean", "ms_velocity_consistency",
      "ms_smoothness_consistency", "temporal_avg_interval",
      "temporal_std_interval", "temporal_event_rate", "activity_uniformity",
      "activity_peak_ratio", "cross_ks_ms_ratio",
      "cross_temporal_correlation", "multitask_switch_rate">>

Finite(v) == [kind |-> "finite", value |-> v]
FloatSample == {Finite(150), Finite(-20), [kind |-> "nan", value |-> 0],
                [kind |-> "inf", value |-> 0], [kind |-> "-inf", value |-> 0]}
KeySample == {"ks_avg_dwell_time_mean", "ms_click_precision_mean",
              "multitask_switch_rate", "temporal_session_duration"}
    \* names extract_session_features yields; the last is not in the vocabulary
FeatureDicts == UNION {[K -> FloatSample] : K \in SUBSET KeySample}

\* Variant that copies the value found, whatever it is
VectorEntry_Raw(features_dict, feature_name) ==
    IF feature_name \in DOMAIN features_dict
    THEN (IF features_dict[feature_name].kind = "finite"
          THEN features_dict[feature_name].value ELSE 99999)
    ELSE 0

\* Lines 334-338: features_dict.get(feature_name, 0.0), NaN and infinities
\* replaced by 0.0
VectorEntry(features_dict, feature_name) ==
    LET value == IF feature_name \in DOMAIN features_dict
                 THEN features_dict[feature_name] ELSE Finite(0)
    IN  IF value.kind \in {"nan", "inf", "-inf"} THEN 0 ELSE value.value

CreateFeatureVector(features_dict) ==
    [i \in 1..Len(ExpectedFeatureNames) |->
        VectorEntry(features_dict, ExpectedFeatureNames[i])]

VectorInit ==
    /\ now = 0
    /\ steps = 0
    /\ sessions = <<>>
    /\ events = EmptyBag
    /\ bundles = <<>>
    /\ loaded_models = {}
    /\ terminated = {}
    /\ requests = <<>>
    /\ profiles = <<>>
    /\ predictor_models = <<>>
    /\ \E d \in FeatureDicts : result = [op |-> "inputs", arg |-> d, status |-> 200]

VectorStep ==
    /\ result.op = "inputs"
    /\ result' = [op |-> "create_feature_vector", arg |-> result.arg, status |-> 200,
                  vector |-> CreateFeatureVector(result.arg)]
    /\ UNCHANGED <<now, steps, sessions, events, bundles, loaded_models, terminated,
                   requests, profiles, predictor_models>>

VectorNext == VectorStep

VectorSpec == VectorInit /\ [][VectorNext]_vars

-----------------------------------------------------------------------------
(* Properties *)

\* The last operation was a trust evaluation that went down the normal path
Evaluated ==
    /\ result.op \in {"calculate_trust_score", "trust_score", "continuous_verification"}
    /\ result.status = 200
    /\ ~result.error

TokenOwner(token) == {s \in SessionIds : sessions[s].session_token = token}

\* C1: when a trust evaluation has just computed level CRITICAL (action
\* TERMINATE_SESSION), the evaluated session is inactive.
C1_CriticalTerminates ==
    (Evaluated /\ result.trust_level = "critical")
        => ~sessions[result.session_id].is_active

\* C2: a continuous_verification made with the token of a session on which
\* execute_security_action(TERMINATE_SESSION) has succeeded is answered 401.
C2_TerminatedRejected ==
    (/\ result.op = "continuous_verification"
     /\ TokenOwner(result.arg) \cap terminated # {})
        => result.status = 401

C2_Witness ==
    /\ result.op = "continuous_verification"
    /\ TokenOwner(result.arg) \cap terminated # {}
    /\ result.status = 401

\* C3: no step sets is_active of a session back to true once it is false.
C3_NeverRevived ==
    [][\A s \in SessionIds : ~sessions[s].is_active => ~sessions'[s].is_active]_vars

\* The user of a dead session has logged in again
C3_Witness ==
    /\ result.op = "login"
    /\ \E s \in SessionIds : /\ sessions[s].user_id = result.arg
                             /\ ~sessions[s].is_active

\* C4: a verify_session_token made with the token of a session older than 24
\* hours is answered 401 and leaves that session inactive.
C4_ExpiredRejected ==
    \A s \in SessionIds :
        (/\ result.op = "verify_session_token"
         /\ sessions[s].session_token = result.arg
         /\ now - sessions[s].login_time > SessionTimeout)
            => (result.status = 401 /\ ~sessions[s].is_active)

\* The call found the session active, and the age cap ended it
C4_Witness ==
    /\ result.op = "verify_session_token"
    /\ result.session_id \in SessionIds
    /\ result.session_id \notin terminated
    /\ now - sessions[result.session_id].login_time > SessionTimeout
    /\ result.status = 401
    /\ ~sessions[result.session_id].is_active

\* C5: when a logout of a user has just completed, that user has no active
\* session.
C5_LogoutTerminates ==
    result.op = "logout"
        => \A s \in SessionIds : sessions[s].user_id = result.arg
                                    => ~sessions[s].is_active

\* C6: when a trust evaluation has just recommended REQUIRE_REAUTH, or an
\* execute_security_action(REQUIRE_REAUTH) has just succeeded, the stored trust
\* of that session is at most 0.3.
C6_ReauthClamps ==
    (\/ Evaluated /\ result.recommended_action = "require_reauth"
     \/ /\ result.op = "execute_security_action"
        /\ result.status = 200
        /\ result.recommended_action = "require_reauth")
        => sessions[result.session_id].current_trust_score <= ReauthTrust

\* C7: the stored trust of every session lies in [0,1].
C7_TrustInUnitRange ==
    \A s \in SessionIds : /\ sessions[s].current_trust_score >= 0
                          /\ sessions[s].current_trust_score <= ONE

\* C8: the write-back of a trust evaluation moves the stored trust by at most
\* max_decay_per_update from the value it had before.
C8_BoundedSwing ==
    Evaluated
        => Abs(sessions[result.session_id].current_trust_score - result.previous)
               <= MaxDecayPerUpdate

\* C9: the level of a composed score T is maximum from 0.8, high from 0.6,
\* moderate from 0.4, low from 0.2 and critical below, and the action is
\* no_action, increase_monitoring, restrict_access, require_reauth and
\* terminate_session in that order.
C9_LevelAndAction ==
    result.op = "compose_trust" =>
        LET T == result.trust_score
            pair == <<result.trust_level, result.recommended_action>>
        IN  /\ T >= 8000 => pair = <<"maximum", "no_action">>
            /\ (T >= 6000 /\ T < 8000) => pair = <<"high", "increase_monitoring">>
            /\ (T >= 4000 /\ T < 6000) => pair = <<"moderate", "restrict_access">>
            /\ (T >= 2000 /\ T < 4000) => pair = <<"low", "require_reauth">>
            /\ T < 2000 => pair = <<"critical", "terminate_session">>

\* A score exactly on the lowest threshold
C9_Witness ==
    /\ result.op = "compose_trust"
    /\ result.trust_score = 2000
    /\ result.trust_level = "low"
    /\ result.recommended_action = "require_reauth"

\* C10: the composed score is 0.4 b' + 0.2 t + 0.15 x + 0.15 h + 0.1 f cut to
\* [0,1], with b' = (1 - anomaly) c + 0.5 (1 - c); anomaly 0.95 at confidence 1
\* with t = 0.7, x = 1, h = 0.5, f = 1 gives 0.485, moderate, restrict_access.
C10_Composite ==
    result.op = "compose_trust" =>
        LET a == result.arg[1]
            c == result.arg[2]
            b1 == ((ONE - a) * c + 5000 * (ONE - c)) \div ONE
            T == (4000 * b1 + 2000 * result.arg[3] + 1500 * result.arg[4]
                    + 1500 * result.arg[5] + 1000 * result.arg[6]) \div ONE
        IN  /\ result.trust_score = (IF T < 0 THEN 0 ELSE IF T > ONE THEN ONE ELSE T)
            /\ result.arg = <<9500, ONE, 7000, ONE, 5000, ONE>>
                 => /\ result.trust_score = 4850
                    /\ result.trust_level = "moderate"
                    /\ result.recommended_action = "restrict_access"

C10_Witness ==
    /\ result.op = "compose_trust"
    /\ result.arg = <<9500, ONE, 7000, ONE, 5000, ONE>>
    /\ result.trust_score = 4850

\* The evaluated session belongs to a user without a trained model
NoModelEvaluated ==
    /\ Evaluated
    /\ ~LoadUserModel(sessions[result.session_id].user_id)

SaturatedAtDefaults ==
    /\ result.op = "compose_trust"
    /\ result.arg[1] = ONE
    /\ result.arg[3] = 7000
    /\ result.arg[4] = ONE
    /\ result.arg[5] = 5000
    /\ result.arg[6] = ONE

\* C12 (as stated): anomaly 1 with the other components at their no-data
\* defaults gives level critical and action terminate_session.
C12_SaturatedCritical ==
    SaturatedAtDefaults
        => /\ result.trust_level = "critical"
           /\ result.recommended_action = "terminate_session"

\* C12 (amended): anomaly 1 with the other components at their no-data
\* defaults gives a score of at least 0.465, so level moderate or high; at
\* confidence 1 it is 0.465, moderate, restrict_access.
C12_SaturatedModerate ==
    SaturatedAtDefaults
        => /\ result.trust_score >= 4650
           /\ result.trust_level \in {"moderate", "high"}
           /\ result.arg[2] = ONE
                => /\ result.trust_score = 4650
                   /\ result.trust_level = "moderate"
                   /\ result.recommended_action = "restrict_access"

C12_Witness ==
    /\ SaturatedAtDefaults
    /\ result.arg[2] = ONE
    /\ result.trust_score = 4650
    /\ result.trust_level = "moderate"

\* C13: of two consecutive trust evaluations of one session, with the clock
\* frozen, no new event and the same behavioral analysis, the second returns
\* the trust score the first returned.
C13_Idempotent ==
    [][(/\ Evaluated
        /\ Evaluated'
        /\ result'.session_id = result.session_id
        /\ now' = now
        /\ events' = events
        /\ result'.behavioral_analysis = result.behavioral_analysis)
           => result'.trust_score = result.trust_score]_vars

\* The last operation was a trust evaluation that took the except branch
FellBack ==
    /\ result.op \in {"calculate_trust_score", "trust_score", "continuous_verification"}
    /\ result.error

\* C14: a trust evaluation that fails returns 0.5, moderate,
\* increase_monitoring with an error, and the step that made it, commits of
\* the same request included, leaves the stored trust of every session as it
\* was.
C14_FallbackKeepsTrust ==
    [][FellBack'
         => /\ result'.trust_score = 5000
            /\ result'.trust_level = "moderate"
            /\ result'.recommended_action = "increase_monitoring"
            /\ \A s \in SessionIds :
                  sessions'[s].current_trust_score = sessions[s].current_trust_score]_vars

\* A continuous verification of an existing session fell back and then
\* committed the activity time
C14_Witness ==
    /\ FellBack
    /\ result.op = "continuous_verification"
    /\ result.status = 200
    /\ result.session_id \in SessionIds
    /\ sessions[result.session_id].last_activity = now
    /\ now > sessions[result.session_id].login_time
    /\ sessions[result.session_id].current_trust_score # 5000

\* C15: of two trust-score requests on one session, the one that commits next
\* after the other read the stored trust the other wrote, and the stored trust
\* is the score of the request that committed last.
C15_Serialised ==
    /\ \A p, q \in Committed :
          requests[q].order = requests[p].order + 1
              => requests[q].reply.previous = requests[p].reply.trust_score
    /\ \A q \in Committed :
          requests[q].order = Cardinality(Committed)
              => sessions[requests[q].reply.session_id].current_trust_score
                     = requests[q].reply.trust_score

\* Two requests have committed, the later one while the earlier one was still
\* in flight
C15_Witness ==
    \E p, q \in Committed :
        /\ requests[p].order = 1
        /\ requests[q].order = 2
        /\ requests[q].overlapped
        /\ requests[q].reply.previous # ONE

\* C16: a keystroke, mouse or trust-score request whose token matches no active
\* session has been answered with HTTP 401.
C16_UnknownTokenIs401 ==
    (/\ result.op \in {"process_keystroke_data", "process_mouse_data", "trust_score"}
     /\ GetActiveSession(result.arg) = 0)
        => result.status = 401

\* The user has fewer than 50 events in the training window, or fewer than 10
\* sessions with at least 10 of them
InsufficientData(user_id) ==
    \/ CountRows(TrainingRows(user_id)) < MinTrainingEvents
    \/ Cardinality({s \in SessionIds :
           CountRows({r \in TrainingRows(user_id) : r.session_id = s}) >= MinSessionEvents})
          < MinFeatureVectors

\* C17: a train_user_model call for a user with fewer than 50 events in the
\* window or fewer than 10 qualifying sessions returns success = false and
\* leaves the bundles and the behavioral profiles as they were.
C17_RefusesInsufficientData ==
    [][(result'.op = "train_user_model" /\ InsufficientData(result'.arg))
          => /\ ~result'.success
             /\ bundles' = bundles
             /\ profiles' = profiles]_vars

\* Refused with 90 events in the window but only 9 qualifying sessions, for a
\* user who has a bundle and a profile
C17_Witness ==
    /\ result.op = "train_user_model"
    /\ result.arg \in DOMAIN bundles \cap DOMAIN profiles
    /\ ~result.success
    /\ result.message = "Insufficient training data"
    /\ CountRows(TrainingRows(result.arg)) >= MinTrainingEvents
    /\ InsufficientData(result.arg)

C20_MissingBundleNeutral ==
    [][(/\ Evaluated'
        /\ sessions[result'.session_id].user_id \notin (DOMAIN bundles \cup loaded_models))
          => /\ result'.behavioral_analysis.anomaly_score = 0
             /\ result'.behavioral_analysis.risk_level = "unknown"
             /\ result'.behavioral_analysis.confidence = 0
             /\ loaded_models' = loaded_models
             /\ sessions[result'.session_id].user_id \notin loaded_models']_vars

\* An evaluation for user 2, who has no bundle, made twice in a row while
\* user 1's model is cached
C20_Witness ==
    /\ Evaluated
    /\ SessionExists(result.session_id)
    /\ sessions[result.session_id].user_id \notin (DOMAIN bundles \cup loaded_models)
    /\ result.behavioral_analysis.risk_level = "unknown"
    /\ result.previous # ONE
    /\ loaded_models # {}

Predicted == result.op = "predict_anomaly"

\* C21: every result of predict_anomaly has anomaly_score and confidence in
\* [0,1], the trust score composed from it is in [0,1], and the anomaly score
\* is the sum of weight times per-detector score, each score within [0,1],
\* divided by the sum of the weights, over the detectors that did not fail.
C21_RangesAndEnsemble ==
    Predicted
        => LET f == result.arg.scores
               W == ModelWeight("isolation_forest")
                      * (IF "isolation_forest" \in DOMAIN f THEN 1 ELSE 0)
                    + ModelWeight("one_class_svm")
                      * (IF "one_class_svm" \in DOMAIN f THEN 1 ELSE 0)
                    + ModelWeight("local_outlier_factor")
                      * (IF "local_outlier_factor" \in DOMAIN f THEN 1 ELSE 0)
               part(m) == IF m \in DOMAIN f
                          THEN NormalizeAnomalyScore(f[m], m) * ModelWeight(m) ELSE 0
               S == part("isolation_forest") + part("one_class_svm")
                      + part("local_outlier_factor")
           IN  /\ result.anomaly_score >= 0 /\ result.anomaly_score <= ONE
               /\ result.confidence >= 0 /\ result.confidence <= ONE
               /\ result.trust_score >= 0 /\ result.trust_score <= ONE
               /\ \A m \in DOMAIN f : /\ NormalizeAnomalyScore(f[m], m) >= 0
                                       /\ NormalizeAnomalyScore(f[m], m) <= ONE
               /\ DOMAIN f # {} => /\ result.anomaly_score * W <= S
                                    /\ S < (result.anomaly_score + 1) * W

\* Three detectors answered, one of them far beyond its typical range, and
\* the historical component fed into the score is above 1
C21_Witness ==
    /\ Predicted
    /\ DOMAIN result.arg.scores = Detectors
    /\ result.arg.scores["isolation_forest"] = -300
    /\ result.arg.others[3] > ONE
    /\ result.anomaly_score > 0
    /\ result.anomaly_score < ONE

\* C22: the confidence is 0.6 times the share of detectors on the majority
\* side of the prediction plus 0.4 times 1/(1 + variance of the raw scores),
\* and 0.5 with a single detector.
C22_MajorityConfidence ==
    (Predicted /\ DOMAIN result.arg.scores # {})
        => LET f == result.arg.scores
               n == Cardinality(DOMAIN f)
               inliers == Cardinality({m \in DOMAIN f : ModelPrediction(f[m], m) = 1})
               majority == (Max2(inliers, n - inliers) * ONE) \div n
               xs == [i \in 1..n |-> f[Listed(f)[i]]]
               consistency == (ONE * ONE) \div (ONE + ScoreVariance(xs))
           IN  result.confidence =
                   (IF n = 1 THEN 5000
                    ELSE Min2(ONE, (majority * 60 + consistency * 40) \div 100))

\* C23: create_feature_vector returns a vector as long as the vocabulary; its
\* position i holds the dictionary's value for the i-th vocabulary name, and 0
\* when the name is missing or its value is NaN or infinite; names outside the
\* vocabulary change nothing.
C23_FixedVector ==
    result.op = "create_feature_vector"
        => LET d == result.arg
               known == [k \in DOMAIN d \cap {ExpectedFeatureNames[i] :
                                                i \in 1..Len(ExpectedFeatureNames)} |-> d[k]]
           IN  /\ Len(result.vector) = VocabularyLength
               /\ Len(ExpectedFeatureNames) = VocabularyLength
               /\ \A i \in 1..VocabularyLength :
                     LET name == ExpectedFeatureNames[i]
                     IN  result.vector[i] =
                           (IF name \in DOMAIN d /\ d[name].kind = "finite"
                            THEN d[name].value ELSE 0)
               /\ result.vector = CreateFeatureVector(known)

\* A dictionary with a NaN under a vocabulary name, a finite value under
\* another and a name outside the vocabulary
C23_Witness ==
    /\ result.op = "create_feature_vector"
    /\ "temporal_session_duration" \in DOMAIN result.arg
    /\ "ks_avg_dwell_time_mean" \in DOMAIN result.arg
    /\ result.arg["ks_avg_dwell_time_mean"].kind = "nan"
    /\ "multitask_switch_rate" \in DOMAIN result.arg
    /\ result.arg["multitask_switch_rate"] = Finite(150)
    /\ result.vector[1] = 0
    /\ result.vector[23] = 150

\* mean / (1 + variance) of the stored trust of all the sessions in S, and 0.5
\* for no session
MeanOverStability(S) ==
    LET n == Cardinality(S)
        v == [i \in S |-> sessions[i].current_trust_score]
        p == [i \in S |-> sessions[i].current_trust_score \div 100]
        psum == SumOver(S, p)
        psq == SumOver(S, [i \in S |-> p[i] * p[i]])
        variance == (n * psq - psum * psum) \div (n * n)
    IN  IF S = {} THEN 5000
        ELSE Clamp01((SumOver(S, v) * ONE) \div (n * (ONE + variance)))

\* C24: the historical component of a trust evaluation is mean/(1 + variance)
\* of the stored trust of all of the user's at most 10 latest sessions of the
\* last 7 days, those with trust 0.0 included, and 0.5 only without sessions.
C24_HistoricalOverAll ==
    [][Evaluated'
         => result'.trust_components[4]
              = MeanOverStability(RecentSessions(sessions[result'.session_id].user_id))]_vars

\* C25: the trend of a trust evaluation compares the new score with the trust
\* stored before the write-back, whatever that value is: stable for a change
\* below 0.05 in size, increasing for a positive and decreasing for a negative
\* change, and previous_score is that stored value.
C25_TrendAgainstStored ==
    [][Evaluated'
         => LET stored == sessions[result'.session_id].current_trust_score
                change == result'.trust_score - stored
            IN  /\ result'.trust_trend.previous_score = stored
                /\ result'.trust_trend.trend =
                      (IF Abs(change) < 500 THEN "stable"
                       ELSE IF change > 0 THEN "increasing" ELSE "decreasing")]_vars

\* C26: execute_security_action changes no session other than the one named;
\* of that one, TERMINATE_SESSION changes only is_active, REQUIRE_REAUTH only
\* current_trust, and the four other actions nothing; for an unknown session
\* id it fails and changes no session.
C26_ActionFrame ==
    [][result'.op = "execute_security_action"
         => LET sid == result'.arg
                action == result'.recommended_action
            IN  IF sid \notin SessionIds
                THEN result'.error /\ sessions' = sessions
                ELSE /\ ~result'.error
                     /\ Len(sessions') = Len(sessions)
                     /\ sessions' =
                           [sessions EXCEPT
                              ![sid].is_active = sessions'[sid].is_active,
                              ![sid].current_trust_score =
                                  sessions'[sid].current_trust_score]
                     /\ action # "terminate_session"
                           => sessions'[sid].is_active = sessions[sid].is_active
                     /\ action # "require_reauth"
                           => sessions'[sid].current_trust_score
                                = sessions[sid].current_trust_score
                     /\ sessions'[sid].last_activity = sessions[sid].last_activity]_vars

\* REQUIRE_REAUTH has lowered the trust of a session whose last activity is
\* older than the clock, and the session is still active
C26_Witness ==
    /\ result.op = "execute_security_action"
    /\ result.recommended_action = "require_reauth"
    /\ SessionExists(result.arg)
    /\ sessions[result.arg].current_trust_score = ReauthTrust
    /\ sessions[result.arg].is_active
    /\ sessions[result.arg].last_activity < now

\* C27: a keystroke, mouse, trust-score or activity request that has been
\* served was made with the token of a session not older than 24 hours.
C27_AgeCapOnTokenOperations ==
    (/\ result.op \in {"process_keystroke_data", "process_mouse_data", "trust_score",
                       "update_session_activity"}
     /\ result.status = 200)
        => \A s \in TokenOwner(result.arg) :
               now - sessions[s].login_time <= SessionTimeout

\* C28: in every result of calculate_trust_score, computed or fallback, the
\* recommended action is the one trust_actions gives for the returned level.
C28_ActionMatchesLevel ==
    (/\ result.op \in {"calculate_trust_score", "trust_score", "continuous_verification"}
     /\ result.trust_level \in TrustLevels)
        => result.recommended_action = TrustActions(result.trust_level)

\* C29: stored events are never changed or removed, every stored event has
\* is_anomalous = false and no anomaly_score, and the anomaly-frequency
\* component of every trust evaluation is 1.0.
C29_EventsNeverFlagged ==
    /\ [](\A r \in EventRows : ~r.is_anomalous /\ r.anomaly_score = "null")
    /\ [](Evaluated => result.trust_components[5] = ONE)
    /\ [][\A r \in EventRows : CopiesIn(r, events') >= CopiesIn(r, events)]_vars

\* An evaluation of a session with events of the last 15 minutes, which the
\* ensemble scored as fully anomalous
C29_Witness ==
    /\ Evaluated
    /\ result.behavioral_analysis.anomaly_score = ONE
    /\ \E r \in EventRows : /\ r.session_id = result.session_id
                             /\ r.timestamp >= now - 900
    /\ result.trust_components[5] = ONE

\* C30: the keystroke block and the mouse block of the training matrix have
\* at least as many columns as the PCA components fitted on them, so a
\* train_user_model call on sufficient data does not fail in fit_scalers.
C30_BlocksWideEnough ==
    (result.op = "train_user_model" /\ ~InsufficientData(result.arg))
        => /\ BlockWidth(0, KeystrokeBlockEnd) >= PcaKeystrokeComponents
           /\ BlockWidth(KeystrokeBlockEnd, MouseBlockEnd) >= PcaMouseComponents
           /\ FitScalers(CollectTrainingData(result.arg))

====
